---- MODULE Spec2Model ----
(***************************************************************************)
(* A model of the REEN MCP server's HTTP client (dist/client.js): the      *)
(* retrying request() loop of ReenClient, the credential-redacting log(),  *)
(* and the start-up sequence of dist/index.js that constructs the client.  *)
(*                                                                         *)
(* JavaScript strings are modelled as sequences of one-character strings,  *)
(* so that substring search, lower-casing, decimal formatting and the      *)
(* redaction regular expression are computed, not assumed.                 *)
(***************************************************************************)
EXTENDS Integers, Sequences, FiniteSets, TLC

(***************************************************************************)
(* Program constants (dist/client.js:5-7, :90).                            *)
(***************************************************************************)
\* a retry budget counted as attempts: one retry too many
MAX_RETRIES_OffByOne == 3 + 1

MAX_RETRIES == 3

INITIAL_BACKOFF_MS == 1000

TOKEN_HEX_LEN == 64

DEFAULT_BASE_URL == <<"h", "t", "t", "p", "s", ":", "/", "/", "b", "a", "c", "k", "e", "n", "d", ".", "r", "e", "e", "n", ".", "t", "e", "c", "h">>

(***************************************************************************)
(* Bounds of the model.                                                    *)
(***************************************************************************)
\* how many request() calls may be in flight at once in SpecConc
MaxCalls == 2

\* how many pieces a logged message is assembled from in SpecLog
MaxPieces == 3

\* the add_exhelp_answer runs in flight at once
MaxHandlers == 2

(***************************************************************************)
(* String primitives of the JavaScript runtime.                            *)
(***************************************************************************)
UpperChars == <<"A", "B", "C", "D", "E", "F", "G", "H", "I", "J", "K", "L", "M", "N", "O", "P", "Q", "R", "S", "T", "U", "V", "W", "X", "Y", "Z">>

LowerChars == <<"a", "b", "c", "d", "e", "f", "g", "h", "i", "j", "k", "l", "m", "n", "o", "p", "q", "r", "s", "t", "u", "v", "w", "x", "y", "z">>

DigitChars == <<"0", "1", "2", "3", "4", "5", "6", "7", "8", "9">>

\* String.prototype.toLowerCase on one character
LowerChar(ch) ==
    IF \E k \in 1..Len(UpperChars) : UpperChars[k] = ch
    THEN LowerChars[CHOOSE k \in 1..Len(UpperChars) : UpperChars[k] = ch]
    ELSE ch

\* String.prototype.toLowerCase
ToLower(s) == [i \in 1..Len(s) |-> LowerChar(s[i])]

\* String.prototype.includes
Includes(hay, needle) ==
    \E i \in 1..(Len(hay) - Len(needle) + 1) :
        SubSeq(hay, i, i + Len(needle) - 1) = needle

\* a string of n copies of ch
Repeat(ch, n) == [i \in 1..n |-> ch]

\* the decimal rendering of a natural number, as template literals produce
RECURSIVE NatToStr(_)
NatToStr(n) ==
    IF n < 10 THEN <<DigitChars[n + 1]>>
    ELSE NatToStr(n \div 10) \o <<DigitChars[(n % 10) + 1]>>

\* Math.pow(2, e) for a natural exponent
RECURSIVE Pow2(_)
Pow2(e) == IF e = 0 THEN 1 ELSE 2 * Pow2(e - 1)

(***************************************************************************)
(* log(): redaction of credential-shaped substrings (dist/client.js:88-92) *)
(***************************************************************************)
TOKEN_PREFIX == <<"r", "e", "e", "n", "_">>

REDACTED == <<"r", "e", "e", "n", "_", "*", "*", "*", "R", "E", "D", "A", "C", "T", "E", "D", "*", "*", "*">>

LOG_TAG == <<"[", "r", "e", "e", "n", "-", "m", "c", "p", "]", " ">>

\* the character class [a-f0-9]
HexChars == {"a", "b", "c", "d", "e", "f", "0", "1", "2", "3", "4", "5", "6", "7", "8", "9"}

\* length of one match of /reen_[a-f0-9]{64}/
ShapeLen == Len(TOKEN_PREFIX) + TOKEN_HEX_LEN

\* /reen_[a-f0-9]{64}/ matches s at position i
ShapeAt(s, i) ==
    /\ i >= 1
    /\ i + ShapeLen - 1 <= Len(s)
    /\ SubSeq(s, i, i + Len(TOKEN_PREFIX) - 1) = TOKEN_PREFIX
    /\ \A k \in (i + Len(TOKEN_PREFIX))..(i + ShapeLen - 1) : s[k] \in HexChars

\* the positions at or after i where /reen_[a-f0-9]{64}/ matches s
MatchesFrom(s, i) == { j \in i..Len(s) : ShapeAt(s, j) }

\* msg.replace(/reen_[a-f0-9]{64}/g, "reen_***REDACTED***") from position i on:
\* the leftmost match is replaced and the scan resumes after its end
RECURSIVE RedactFrom(_, _)
RedactFrom(s, i) ==
    IF MatchesFrom(s, i) = {} THEN SubSeq(s, i, Len(s))
    ELSE LET j == CHOOSE m \in MatchesFrom(s, i) : \A o \in MatchesFrom(s, i) : m <= o
         IN SubSeq(s, i, j - 1) \o REDACTED \o RedactFrom(s, j + ShapeLen)

\* the regular expression without its g flag: only the first match is replaced
RedactFirstOnly(msg) ==
    IF MatchesFrom(msg, 1) = {} THEN msg
    ELSE LET j == CHOOSE m \in MatchesFrom(msg, 1) : \A o \in MatchesFrom(msg, 1) : m <= o
         IN SubSeq(msg, 1, j - 1) \o REDACTED \o SubSeq(msg, j + ShapeLen, Len(msg))

Redact(msg) == RedactFrom(msg, 1)

\* the line log(msg) writes to process.stderr
LogLine(msg) == LOG_TAG \o Redact(msg) \o <<"\n">>

(***************************************************************************)
(* Values.  An optional value is a sequence of length at most one:         *)
(* None for undefined/null, Some(x) for x.                                 *)
(***************************************************************************)
None == <<>>

Some(x) == <<x>>

\* JavaScript values passed as a request body, or decoded from a response
JUndefined == [undef |-> TRUE]

JNull == [null |-> TRUE]

JNum(n) == [num |-> n]

JBool(b) == [bool |-> b]

JStr(s) == [str |-> s]

JArr(items) == [arr |-> items]

\* an object with one own property
JObj(key, val) == [key |-> key, val |-> val]

IsUndefined(v) == DOMAIN v = {"undef"}

\* JavaScript truthiness of a value, as the conditional operator tests it
Truthy(v) ==
    CASE DOMAIN v = {"undef"} -> FALSE
      [] DOMAIN v = {"null"} -> FALSE
      [] DOMAIN v = {"num"} -> v.num # 0
      [] DOMAIN v = {"bool"} -> v.bool
      [] DOMAIN v = {"str"} -> Len(v.str) > 0
      [] OTHER -> TRUE

\* JSON string escaping of one character (quote and backslash)
JsonChar(ch) ==
    IF ch = "\"" THEN <<"\\", "\"">>
    ELSE IF ch = "\\" THEN <<"\\", "\\">>
    ELSE <<ch>>

RECURSIVE JsonChars(_)
JsonChars(s) == IF s = <<>> THEN <<>> ELSE JsonChar(Head(s)) \o JsonChars(Tail(s))

JsonQuote(s) == <<"\"">> \o JsonChars(s) \o <<"\"">>

\* JSON.stringify of a defined value
RECURSIVE JsonStringify(_)
RECURSIVE JsonItems(_)
JsonItems(items) ==
    IF items = <<>> THEN <<>>
    ELSE IF Len(items) = 1 THEN JsonStringify(items[1])
    ELSE JsonStringify(items[1]) \o <<",">> \o JsonItems(Tail(items))

JsonStringify(v) ==
    CASE DOMAIN v = {"null"} -> <<"n", "u", "l", "l">>
      [] DOMAIN v = {"num"} -> NatToStr(v.num)
      [] DOMAIN v = {"bool"} ->
            IF v.bool THEN <<"t", "r", "u", "e">> ELSE <<"f", "a", "l", "s", "e">>
      [] DOMAIN v = {"str"} -> JsonQuote(v.str)
      [] DOMAIN v = {"arr"} -> <<"[">> \o JsonItems(v.arr) \o <<"]">>
      [] DOMAIN v = {"key", "val"} ->
            <<"{">> \o JsonQuote(v.key) \o <<":">> \o JsonStringify(v.val) \o <<"}">>

(***************************************************************************)
(* ReenClient.request (dist/client.js:16-57), in pieces.                   *)
(***************************************************************************)
\* an Error object with a message
Err(msg) == [isError |-> TRUE, message |-> msg]

\* a thrown value that is no Error: a bare string
ThrownStr(s) == [isError |-> FALSE, message |-> s]

\* `body ? JSON.stringify(body) : ""`: an empty payload instead of none
PayloadEmptyString(body) == IF Truthy(body) THEN Some(JsonStringify(body)) ELSE Some(<<>>)

\* `body ? JSON.stringify(body) : undefined` (client.js:34)
Payload(body) == IF Truthy(body) THEN Some(JsonStringify(body)) ELSE None

\* the credential sent bare, without the "Bearer " scheme
HeadersBareToken(token) ==
    [Authorization |-> token,
     ContentType   |-> <<"a", "p", "p", "l", "i", "c", "a", "t", "i", "o", "n", "/", "j", "s", "o", "n">>,
     UserAgent     |-> <<"r", "e", "e", "n", "-", "m", "c", "p", "-", "s", "e", "r", "v", "e", "r", "/", "0", ".", "1", ".", "0">>]

\* the headers object of one attempt (client.js:26-30)
Headers(token) ==
    [Authorization |-> <<"B", "e", "a", "r", "e", "r", " ">> \o token,
     ContentType   |-> <<"a", "p", "p", "l", "i", "c", "a", "t", "i", "o", "n", "/", "j", "s", "o", "n">>,
     UserAgent     |-> <<"r", "e", "e", "n", "-", "m", "c", "p", "-", "s", "e", "r", "v", "e", "r", "/", "0", ".", "1", ".", "0">>]

\* the exponent taken from the attempt, not from the attempt before it
BackoffFromAttempt(attempt) == INITIAL_BACKOFF_MS * Pow2(attempt)

\* a linear backoff, INITIAL_BACKOFF_MS * attempt
BackoffLinear(attempt) == INITIAL_BACKOFF_MS * attempt

\* INITIAL_BACKOFF_MS * Math.pow(2, attempt - 1) (client.js:21)
Backoff(attempt) == INITIAL_BACKOFF_MS * Pow2(attempt - 1)

\* `res.status === 429 || res.status >= 500` (client.js:37)
IsRetryStatus(status) == status = 429 \/ status >= 500

\* Response.ok
ResOk(status) == status >= 200 /\ status <= 299

\* `HTTP ${status}: ${detail}` (client.js:38, :44)
HttpMessage(status, detail) ==
    <<"H", "T", "T", "P", " ">> \o NatToStr(status) \o <<":", " ">> \o detail

\* the signatures isRetryable looks for (client.js:77-82)
RetrySignatures ==
    { <<"e", "c", "o", "n", "n", "r", "e", "s", "e", "t">>,
      <<"e", "c", "o", "n", "n", "r", "e", "f", "u", "s", "e", "d">>,
      <<"e", "t", "i", "m", "e", "d", "o", "u", "t">>,
      <<"f", "e", "t", "c", "h", " ", "f", "a", "i", "l", "e", "d">>,
      <<"h", "t", "t", "p", " ", "4", "2", "9">>,
      <<"h", "t", "t", "p", " ", "5">> }

\* the signatures looked for in the message as thrown, not lower-cased
IsRetryableCaseSensitive(message) ==
    \E sig \in RetrySignatures : Includes(message, sig)

\* isRetryable(err), on err.message (client.js:75-83)
IsRetryable(message) ==
    \E sig \in RetrySignatures : Includes(ToLower(message), sig)

\* `Retry ${attempt}/${MAX_RETRIES} for ${method} ${path}` (client.js:23)
RetryNotice(attempt, method, path) ==
    <<"R", "e", "t", "r", "y", " ">> \o NatToStr(attempt) \o <<"/">> \o NatToStr(MAX_RETRIES)
        \o <<" ", "f", "o", "r", " ">> \o method \o <<" ">> \o path

\* the arguments of one request(method, path, body) call
Req(method, path, body) == [method |-> method, path |-> path, body |-> body]

GET == <<"G", "E", "T">>

POST == <<"P", "O", "S", "T">>

PUT == <<"P", "U", "T">>

PATCH == <<"P", "A", "T", "C", "H">>

DELETE == <<"D", "E", "L", "E", "T", "E">>

\* the shorthands (client.js:59-73): what each forwards to request()
get(path) == Req(GET, path, JUndefined)

post(path, body) == Req(POST, path, body)

put(path, body) == Req(PUT, path, body)

patch(path, body) == Req(PATCH, path, body)

\* a delete that forwards the path alone
deleteNoBody(path, body) == Req(DELETE, path, JUndefined)

delete(path, body) == Req(DELETE, path, body)

\* a shorthand invocation [name, path, body] and the request() call it makes
Shorthand(name, path, body) == [name |-> name, path |-> path, body |-> body]

Forward(sh) ==
    CASE sh.name = "get" -> get(sh.path)
      [] sh.name = "post" -> post(sh.path, sh.body)
      [] sh.name = "put" -> put(sh.path, sh.body)
      [] sh.name = "patch" -> patch(sh.path, sh.body)
      [] sh.name = "delete" -> delete(sh.path, sh.body)

(***************************************************************************)
(* State.                                                                  *)
(***************************************************************************)
VARIABLES
    env,      \* process.env: REEN_API_TOKEN and REEN_API_URL, each optional
    mainPc,   \* where dist/index.js stands: "load", "loaded", "registered", "connecting", "connected", "exited"
    client,   \* the ReenClient instance: [made, baseUrl, token]
    tools,    \* the names of the tools registered on the McpServer
    calls,    \* the request() calls, by call id: locals, position, event history, and
              \* the shorthand invocation the call was forwarded from, if any
    stderr,   \* the lines written to process.stderr, in order
    logArgs,  \* for each line of stderr: Some(msg) when log(msg) wrote it, else None
    stdout,   \* the lines written to process.stdout (the JSON-RPC channel)
    exitCode, \* Some(code) once process.exit(code) ran
    backend,  \* the answers value the backend stores for the one Ex-Help request
    handlers  \* the add_exhelp_answer handler runs, by run id: arguments, locals, position

vars == <<env, mainPc, client, tools, calls, stderr, logArgs, stdout, exitCode, backend, handlers>>

CallIds == 1..MaxCalls

\* a request() call that has not been made
IdleCall ==
    [pc |-> "idle", method |-> <<>>, path |-> <<>>, body |-> JUndefined, url |-> <<>>,
     attempt |-> 0, lastError |-> None, res |-> None, result |-> None, events |-> <<>>,
     via |-> None]

(***************************************************************************)
(* Start-up (dist/index.js:14-21, :337-347) and the constructor            *)
(* (dist/client.js:11-14).                                                 *)
(***************************************************************************)
\* `x || fallback` on an optional string: undefined and "" are both falsy
OrElse(opt, fallback) == IF opt = None \/ opt[1] = <<>> THEN fallback ELSE opt[1]

\* s.replace(/\/$/, ""): one trailing slash is removed
StripTrailingSlash(s) ==
    IF Len(s) > 0 /\ s[Len(s)] = "/" THEN SubSeq(s, 1, Len(s) - 1) ELSE s

\* new ReenClient({ baseUrl, token })
NewClient(baseUrl, token) ==
    [made |-> TRUE,
     baseUrl |-> StripTrailingSlash(OrElse(Some(baseUrl), DEFAULT_BASE_URL)),
     token |-> token]

NoClient == [made |-> FALSE, baseUrl |-> <<>>, token |-> <<>>]

\* the tools index.js registers, in order of registration
ToolNames ==
    { "whoami", "list_plans", "get_plan", "create_plan", "update_plan", "delete_plan",
      "create_task", "create_subtask", "update_task", "update_task_dates", "delete_task",
      "get_plan_progress", "get_narrative", "update_narrative", "list_exhelp",
      "create_exhelp", "update_exhelp", "add_exhelp_answer", "get_exhelp_pack",
      "delete_exhelp", "share_exhelp", "list_plan_files", "list_conferences",
      "get_conference_initial_prompt", "update_conference_initial_prompt",
      "create_conference", "read_conference_messages", "update_conference_agents",
      "send_conference_message" }

\* the text written when REEN_API_TOKEN is missing (U+2192 written "->")
MISSING_TOKEN_TEXT == <<"E", "r", "r", "o", "r", ":", " ", "R", "E", "E", "N", "_", "A", "P", "I", "_", "T", "O", "K", "E", "N", " ", "e", "n", "v", "i", "r", "o", "n", "m", "e", "n", "t", " ", "v", "a", "r", "i", "a", "b", "l", "e", " ", "i", "s", " ", "r", "e", "q", "u", "i", "r", "e", "d", ".", "\n", "G", "e", "t", " ", "y", "o", "u", "r", " ", "t", "o", "k", "e", "n", " ", "a", "t", " ", "h", "t", "t", "p", "s", ":", "/", "/", "r", "e", "e", "n", ".", "t", "e", "c", "h", " ", "-", ">", " ", "S", "e", "t", "t", "i", "n", "g", "s", " ", "-", ">", " ", "A", "P", "I", " ", "T", "o", "k", "e", "n", "s", ".", "\n">>

STARTING_TEXT == <<"S", "t", "a", "r", "t", "i", "n", "g", " ", "r", "e", "e", "n", "-", "m", "c", "p", "-", "s", "e", "r", "v", "e", "r", " ", "v", "0", ".", "1", ".", "0">>

CONNECTED_TEXT == <<"C", "o", "n", "n", "e", "c", "t", "e", "d", " ", "v", "i", "a", " ", "s", "t", "d", "i", "o">>

\* `API: ${baseUrl}` (index.js:339)
ApiNotice(baseUrl) == <<"A", "P", "I", ":", " ">> \o baseUrl

\* `Fatal: ${err}\n` (index.js:345); an Error renders as "Error: " + message
FatalText(message) ==
    <<"F", "a", "t", "a", "l", ":", " ", "E", "r", "r", "o", "r", ":", " ">> \o message \o <<"\n">>

\* log(msg) appends one line to stderr
LogWrite(lines, msg) == Append(lines, LogLine(msg))

\* the client constructed first and the token tested after it
ModuleLoadConstructFirst ==
    /\ mainPc = "load"
    /\ client' = NewClient(OrElse(env.url, DEFAULT_BASE_URL), OrElse(env.token, <<>>))
    /\ IF OrElse(env.token, <<>>) = <<>>
       THEN /\ stderr' = Append(stderr, MISSING_TOKEN_TEXT)
            /\ logArgs' = Append(logArgs, None)
            /\ exitCode' = Some(1)
            /\ mainPc' = "exited"
       ELSE /\ mainPc' = "loaded"
            /\ UNCHANGED <<stderr, logArgs, exitCode>>
    /\ UNCHANGED <<env, tools, calls, stdout, backend, handlers>>

\* Module load: the token test, then the client is constructed (index.js:14-21)
ModuleLoad ==
    /\ mainPc = "load"
    /\ IF OrElse(env.token, <<>>) = <<>>
       THEN /\ stderr' = Append(stderr, MISSING_TOKEN_TEXT)
            /\ logArgs' = Append(logArgs, None)
            /\ exitCode' = Some(1)
            /\ mainPc' = "exited"
            /\ UNCHANGED client
       ELSE /\ client' = NewClient(OrElse(env.url, DEFAULT_BASE_URL), env.token[1])
            /\ mainPc' = "loaded"
            /\ UNCHANGED <<stderr, logArgs, exitCode>>
    /\ UNCHANGED <<env, tools, calls, stdout, backend, handlers>>

\* the McpServer is made and every server.tool(...) call registers one tool
\* (index.js:23-336)
RegisterTools ==
    /\ mainPc = "loaded"
    /\ tools' = ToolNames
    /\ mainPc' = "registered"
    /\ UNCHANGED <<env, client, calls, stderr, logArgs, stdout, exitCode, backend, handlers>>

\* main() up to `await server.connect(transport)` (index.js:337-341)
MainStart ==
    /\ mainPc = "registered"
    /\ LET baseUrl == OrElse(env.url, DEFAULT_BASE_URL)
       IN /\ stderr' = LogWrite(LogWrite(stderr, STARTING_TEXT), ApiNotice(baseUrl))
          /\ logArgs' = logArgs \o <<Some(STARTING_TEXT), Some(ApiNotice(baseUrl))>>
    /\ mainPc' = "connecting"
    /\ UNCHANGED <<env, client, tools, calls, stdout, exitCode, backend, handlers>>

\* server.connect(transport) resolved: main() logs and returns
Connected ==
    /\ mainPc = "connecting"
    /\ stderr' = LogWrite(stderr, CONNECTED_TEXT)
    /\ logArgs' = Append(logArgs, Some(CONNECTED_TEXT))
    /\ mainPc' = "connected"
    /\ UNCHANGED <<env, client, tools, calls, stdout, exitCode, backend, handlers>>

\* server.connect(transport) rejected: main().catch writes and exits
ConnectFailed(message) ==
    /\ mainPc = "connecting"
    /\ stderr' = Append(stderr, FatalText(message))
    /\ logArgs' = Append(logArgs, None)
    /\ exitCode' = Some(1)
    /\ mainPc' = "exited"
    /\ UNCHANGED <<env, client, tools, calls, stdout, backend, handlers>>

(***************************************************************************)
(* The attempt loop of request(), as steps on one call's record k.         *)
(***************************************************************************)
\* the fetch(url, {method, headers, body}) of the current attempt is issued
Dispatch(k, cl) ==
    [k EXCEPT !.pc = "fetching",
              !.events = Append(@, [type |-> "dispatch", attempt |-> k.attempt,
                                    url |-> k.url, method |-> k.method,
                                    headers |-> Headers(cl.token),
                                    payload |-> Payload(k.body)])]

\* the call ends by throwing an error with this message
Raise(k, message) ==
    [k EXCEPT !.pc = "raised",
              !.result = Some([kind |-> "raised", message |-> message])]

\* the call ends by returning this value
Return(k, value) ==
    [k EXCEPT !.pc = "returned",
              !.result = Some([kind |-> "returned", value |-> value])]

\* the backoff taken from a retry count shared by all the calls of the module
BeginAttemptSharedBackoff(k, cl) ==
    IF k.attempt > 0
    THEN [k EXCEPT !.pc = "sleeping",
                   !.events = Append(@, [type |-> "sleep",
                                         ms |-> Backoff(k.attempt + Cardinality({ c \in CallIds : calls[c].pc = "sleeping" }))])]
    ELSE Dispatch(k, cl)

\* top of the loop body for attempt k.attempt: back off first when attempt > 0
BeginAttempt(k, cl) ==
    IF k.attempt > 0
    THEN [k EXCEPT !.pc = "sleeping",
                   !.events = Append(@, [type |-> "sleep", ms |-> Backoff(k.attempt)])]
    ELSE Dispatch(k, cl)

\* `continue`: attempt++, the loop test, and the post-loop throw (client.js:19, :56)
Continue(k, cl) ==
    LET n == [k EXCEPT !.attempt = @ + 1]
    IN IF n.attempt <= MAX_RETRIES
       THEN BeginAttempt(n, cl)
       ELSE Raise([n EXCEPT !.events = Append(@, [type |-> "postLoop", attempt |-> n.attempt])],
                  IF n.lastError # None THEN n.lastError[1]
                  ELSE <<"R", "e", "q", "u", "e", "s", "t", " ", "f", "a", "i", "l", "e", "d">>)

\* `err instanceof Error ? err : new Error(String(err))` (client.js:49)
AsError(thrown) == IF thrown.isError THEN thrown ELSE Err(thrown.message)

\* a catch block that keeps the failure recorded first: lastError = lastError || err
CatchKeepFirst(k, thrown, cl) ==
    LET e == AsError(thrown)
        n == [k EXCEPT !.lastError = IF @ # None THEN @ ELSE Some(e.message)]
    IN IF k.attempt < MAX_RETRIES /\ IsRetryable(e.message)
       THEN Continue(n, cl)
       ELSE Raise(n, n.lastError[1])

\* the catch block (client.js:48-54)
Catch(k, thrown, cl) ==
    LET e == AsError(thrown)
        n == [k EXCEPT !.lastError = Some(e.message)]
    IN IF k.attempt < MAX_RETRIES /\ IsRetryable(e.message)
       THEN Continue(n, cl)
       ELSE Raise(n, e.message)

\* a retry status that continues without asking whether attempts remain
OnResponseAlwaysContinue(k, resp, cl) ==
    LET retry == IsRetryStatus(resp.status)
        n == [k EXCEPT !.res = Some(resp),
                       !.lastError = IF retry
                                     THEN Some(HttpMessage(resp.status, resp.statusText))
                                     ELSE @,
                       !.events = Append(@, [type |-> "response", attempt |-> k.attempt,
                                             status |-> resp.status,
                                             statusText |-> resp.statusText])]
    IN IF retry THEN Continue(n, cl)
       ELSE IF ~ResOk(resp.status) THEN [n EXCEPT !.pc = "readingText"]
       ELSE [n EXCEPT !.pc = "readingJson"]

\* a retry policy that retries 429 / >= 500 for GET requests only
OnResponseRetryGetOnly(k, resp, cl) ==
    LET retry == IsRetryStatus(resp.status) /\ k.method = GET
        n == [k EXCEPT !.res = Some(resp),
                       !.lastError = IF retry
                                     THEN Some(HttpMessage(resp.status, resp.statusText))
                                     ELSE @,
                       !.events = Append(@, [type |-> "response", attempt |-> k.attempt,
                                             status |-> resp.status,
                                             statusText |-> resp.statusText])]
    IN IF retry /\ k.attempt < MAX_RETRIES THEN Continue(n, cl)
       ELSE IF ~ResOk(resp.status) THEN [n EXCEPT !.pc = "readingText"]
       ELSE [n EXCEPT !.pc = "readingJson"]

\* fetch resolved with a response (client.js:37-46, up to the body read)
OnResponse(k, resp, cl) ==
    LET retry == IsRetryStatus(resp.status)
        n == [k EXCEPT !.res = Some(resp),
                       !.lastError = IF retry
                                     THEN Some(HttpMessage(resp.status, resp.statusText))
                                     ELSE @,
                       !.events = Append(@, [type |-> "response", attempt |-> k.attempt,
                                             status |-> resp.status,
                                             statusText |-> resp.statusText])]
    IN IF retry /\ k.attempt < MAX_RETRIES THEN Continue(n, cl)
       ELSE IF ~ResOk(resp.status) THEN [n EXCEPT !.pc = "readingText"]
       ELSE [n EXCEPT !.pc = "readingJson"]

\* the settled body read never resumes the call: it stays at the await
OnTextNeverResumes(k, text, cl) == k

\* `await res.text().catch(() => "")` settled, then the throw of client.js:44
OnText(k, text, cl) ==
    LET t == IF text = None THEN <<>> ELSE text[1]
        detail == IF Len(t) > 0 THEN t ELSE k.res[1].statusText
        n == [k EXCEPT !.events = Append(@, [type |-> "text", attempt |-> k.attempt,
                                             text |-> text])]
    IN Catch(n, Err(HttpMessage(k.res[1].status, detail)), cl)

\* a settled res.json(): resolved with a value, or rejected with a thrown value
JsonOk(value) == [ok |-> TRUE, value |-> value]

JsonFail(thrown) == [ok |-> FALSE, thrown |-> thrown]

\* `return (await res.json())` (client.js:46)
OnJson(k, j, cl) ==
    LET n == [k EXCEPT !.events = Append(@, [type |-> "json", attempt |-> k.attempt,
                                             json |-> j])]
    IN IF j.ok THEN Return(n, j.value) ELSE Catch(n, j.thrown, cl)

\* fetch rejected with a thrown value
OnThrow(k, thrown, cl) ==
    LET n == [k EXCEPT !.events = Append(@, [type |-> "throw", attempt |-> k.attempt,
                                             thrown |-> thrown])]
    IN Catch(n, thrown, cl)

\* the backoff timer fired and the fetch is issued with no retry notice
OnWakeNoNotice(k, cl) == Dispatch(k, cl)

\* the backoff timer fired: the retry notice, then the fetch (client.js:23-35)
OnWake(k, cl) ==
    Dispatch([k EXCEPT !.events = Append(@, [type |-> "log", attempt |-> k.attempt,
                                             line |-> LogLine(RetryNotice(k.attempt, k.method, k.path))])],
             cl)

\* the backoff timer fired and process.stderr.write failed inside log(): when
\* it threw, nothing catches it (client.js:23 stands outside the try block,
\* log() has no handler) and the call ends with that thrown value; when the
\* stream only reported the failure, the line is lost and the fetch follows
OnWakeWriteFailed(k, failure, cl) ==
    LET n == [k EXCEPT !.events = Append(@, [type |-> "writeFailed", attempt |-> k.attempt,
                                             failure |-> failure])]
    IN IF failure.threw THEN Raise(n, failure.message) ELSE Dispatch(n, cl)

(***************************************************************************)
(* Actions of request().                                                   *)
(***************************************************************************)
\* request(method, path, body) is called: url is built, attempt 0 is dispatched.
\* Call ids number the calls in the order they are made.
Call(c, req) ==
    /\ mainPc = "connected"
    /\ calls[c].pc = "idle"
    /\ \A d \in CallIds : d < c => calls[d].pc # "idle"
    /\ calls' = [calls EXCEPT ![c] =
                    BeginAttempt([IdleCall EXCEPT !.method = req.method, !.path = req.path,
                                                  !.body = req.body,
                                                  !.url = client.baseUrl \o req.path],
                                 client)]
    /\ UNCHANGED <<env, mainPc, client, tools, stderr, logArgs, stdout, exitCode, backend, handlers>>

\* one of the shorthands is called: it fixes the method and forwards to
\* request() (client.js:59-73)
CallShorthand(c, sh) ==
    /\ mainPc = "connected"
    /\ calls[c].pc = "idle"
    /\ \A d \in CallIds : d < c => calls[d].pc # "idle"
    /\ LET req == Forward(sh)
       IN calls' = [calls EXCEPT ![c] =
                       [BeginAttempt([IdleCall EXCEPT !.method = req.method, !.path = req.path,
                                                      !.body = req.body,
                                                      !.url = client.baseUrl \o req.path],
                                     client)
                          EXCEPT !.via = Some(sh)]]
    /\ UNCHANGED <<env, mainPc, client, tools, stderr, logArgs, stdout, exitCode, backend, handlers>>

FetchResolve(c, resp) ==
    /\ calls[c].pc = "fetching"
    /\ calls' = [calls EXCEPT ![c] = OnResponse(calls[c], resp, client)]
    /\ UNCHANGED <<env, mainPc, client, tools, stderr, logArgs, stdout, exitCode, backend, handlers>>

FetchReject(c, thrown) ==
    /\ calls[c].pc = "fetching"
    /\ calls' = [calls EXCEPT ![c] = OnThrow(calls[c], thrown, client)]
    /\ UNCHANGED <<env, mainPc, client, tools, stderr, logArgs, stdout, exitCode, backend, handlers>>

TextSettle(c, text) ==
    /\ calls[c].pc = "readingText"
    /\ calls' = [calls EXCEPT ![c] = OnText(calls[c], text, client)]
    /\ UNCHANGED <<env, mainPc, client, tools, stderr, logArgs, stdout, exitCode, backend, handlers>>

JsonSettle(c, j) ==
    /\ calls[c].pc = "readingJson"
    /\ calls' = [calls EXCEPT ![c] = OnJson(calls[c], j, client)]
    /\ UNCHANGED <<env, mainPc, client, tools, stderr, logArgs, stdout, exitCode, backend, handlers>>

SleepDone(c) ==
    /\ calls[c].pc = "sleeping"
    /\ stderr' = LogWrite(stderr, RetryNotice(calls[c].attempt, calls[c].method, calls[c].path))
    /\ logArgs' = Append(logArgs, Some(RetryNotice(calls[c].attempt, calls[c].method, calls[c].path)))
    /\ calls' = [calls EXCEPT ![c] = OnWake(calls[c], client)]
    /\ UNCHANGED <<env, mainPc, client, tools, stdout, exitCode, backend, handlers>>

\* the backoff ends but the retry notice cannot be written to process.stderr
SleepDoneWriteFails(c, failure) ==
    /\ calls[c].pc = "sleeping"
    /\ calls' = [calls EXCEPT ![c] = OnWakeWriteFailed(calls[c], failure, client)]
    /\ UNCHANGED <<env, mainPc, client, tools, stderr, logArgs, stdout, exitCode, backend, handlers>>

\* The body parameter holds a reference: while request() is suspended at an
\* await, another task that holds the same object assigns to its property.
\* The object is read again by JSON.stringify at each attempt (client.js:34).
MutateBody(c, val) ==
    /\ calls[c].pc \in {"fetching", "sleeping", "readingText", "readingJson"}
    /\ DOMAIN calls[c].body = {"key", "val"}
    /\ calls[c].body.val # val
    /\ calls' = [calls EXCEPT ![c].body = JObj(@.key, val)]
    /\ UNCHANGED <<env, mainPc, client, tools, stderr, logArgs, stdout, exitCode, backend, handlers>>

\* log(msg) called directly (it is exported)
LogCall(msg) ==
    /\ stderr = <<>>
    /\ stderr' = LogWrite(stderr, msg)
    /\ logArgs' = Append(logArgs, Some(msg))
    /\ UNCHANGED <<env, mainPc, client, tools, calls, stdout, exitCode, backend, handlers>>

(***************************************************************************)
(* The add_exhelp_answer tool (index.js:231-252): read the pack of the     *)
(* Ex-Help request, put the model's answer into its answers list, write    *)
(* the whole list back.  client.get and client.patch are taken by what     *)
(* request() gives their caller: it resolves with the decoded body or      *)
(* rejects.  The backend answers the GET from what it stores and stores    *)
(* the answers list of the PATCH.                                          *)
(***************************************************************************)
HandlerIds == 1..MaxHandlers

\* a handler run that has not started
IdleHandler ==
    [pc |-> "idle", model_id |-> "", text |-> "",
     current |-> JUndefined, entry |-> None, answers |-> None]

\* { model_id, text, created_at }
Entry(model_id, text, created_at) ==
    [model_id |-> model_id, text |-> text, created_at |-> created_at]

EXHELP_KEY == <<"e", "x", "h", "e", "l", "p">>

ANSWERS_KEY == <<"a", "n", "s", "w", "e", "r", "s">>

\* v?.name
OptProp(v, name) ==
    IF DOMAIN v = {"key", "val"} /\ v.key = name THEN v.val ELSE JUndefined

\* Array.isArray(v)
IsArray(v) == DOMAIN v = {"arr"}

\* the pack the backend sends for the GET
Pack(stored) == JObj(EXHELP_KEY, JObj(ANSWERS_KEY, stored))

\* answers.findIndex(a => a.model_id === model_id), 0-based, -1 for none;
\* the variant below finds the last such entry
findLastIndex(answers, model_id) ==
    LET hits == { i \in 1..Len(answers) : answers[i].model_id = model_id }
    IN IF hits = {} THEN -1
       ELSE (CHOOSE i \in hits : \A j \in hits : j <= i) - 1

findIndex(answers, model_id) ==
    LET hits == { i \in 1..Len(answers) : answers[i].model_id = model_id }
    IN IF hits = {} THEN -1
       ELSE (CHOOSE i \in hits : \A j \in hits : i <= j) - 1

\* index.js:238-249: the list sent back, from the pack received
AnswersToSend(current, entry) ==
    LET exhelp == OptProp(current, EXHELP_KEY)
        raw == OptProp(exhelp, ANSWERS_KEY)
        answers == IF IsArray(raw) THEN raw.arr ELSE <<>>
        idx == findIndex(answers, entry.model_id)
    IN IF idx >= 0 THEN [answers EXCEPT ![idx + 1] = entry]
       ELSE Append(answers, entry)

\* the tool is called: client.get(.../pack?format=json) is in flight
AddExhelpAnswer(h, model_id, text) ==
    /\ mainPc = "connected"
    /\ "add_exhelp_answer" \in tools
    /\ handlers[h].pc = "idle"
    /\ handlers' = [handlers EXCEPT ![h] =
                       [@ EXCEPT !.pc = "getting", !.model_id = model_id, !.text = text]]
    /\ UNCHANGED <<env, mainPc, client, tools, calls, stderr, logArgs, stdout, exitCode, backend>>

\* the backend answers the GET from what it stores now
GetServed(h, pack) ==
    /\ handlers[h].pc = "getting"
    /\ handlers' = [handlers EXCEPT ![h] = [@ EXCEPT !.pc = "gotPack", !.current = pack]]
    /\ UNCHANGED <<env, mainPc, client, tools, calls, stderr, logArgs, stdout, exitCode, backend>>

\* client.get rejects: the handler rejects
GetRejects(h) ==
    /\ handlers[h].pc = "getting"
    /\ handlers' = [handlers EXCEPT ![h].pc = "failed"]
    /\ UNCHANGED <<env, mainPc, client, tools, calls, stderr, logArgs, stdout, exitCode, backend>>

\* `await client.get` resumes: index.js:238-250 up to the PATCH in flight
SendPatch(h, now) ==
    /\ handlers[h].pc = "gotPack"
    /\ LET entry == Entry(handlers[h].model_id, handlers[h].text, now)
       IN handlers' = [handlers EXCEPT ![h] =
                          [@ EXCEPT !.pc = "patching",
                                    !.entry = Some(entry),
                                    !.answers = Some(AnswersToSend(handlers[h].current, entry))]]
    /\ UNCHANGED <<env, mainPc, client, tools, calls, stderr, logArgs, stdout, exitCode, backend>>

\* the backend stores the answers list of the PATCH
PatchServed(h) ==
    /\ handlers[h].pc = "patching"
    /\ backend' = JArr(handlers[h].answers[1])
    /\ handlers' = [handlers EXCEPT ![h].pc = "patched"]
    /\ UNCHANGED <<env, mainPc, client, tools, calls, stderr, logArgs, stdout, exitCode>>

\* client.patch rejects, nothing stored: the handler rejects
PatchRejects(h) ==
    /\ handlers[h].pc = "patching"
    /\ handlers' = [handlers EXCEPT ![h].pc = "failed"]
    /\ UNCHANGED <<env, mainPc, client, tools, calls, stderr, logArgs, stdout, exitCode, backend>>

\* `await client.patch` resumes: the handler returns its content
HandlerReturns(h) ==
    /\ handlers[h].pc = "patched"
    /\ handlers' = [handlers EXCEPT ![h].pc = "done"]
    /\ UNCHANGED <<env, mainPc, client, tools, calls, stderr, logArgs, stdout, exitCode, backend>>

(***************************************************************************)
(* The inputs the environment may supply.                                  *)
(***************************************************************************)
\* a credential of the issued shape, and one that is not of that shape
TokenShaped == TOKEN_PREFIX \o Repeat("a", TOKEN_HEX_LEN)

TokenPlain == <<"t", "o", "k", "-", "1">>

Envs ==
    { [token |-> Some(TokenShaped), url |-> None],
      [token |-> Some(TokenPlain), url |-> Some(<<"h", "t", "t", "p", "s", ":", "/", "/", "h", "/">>)],
      [token |-> Some(TokenPlain), url |-> Some(<<"h", "t", "t", "p", "s", ":", "/", "/", "h", "/", "/">>)],
      [token |-> None, url |-> None],
      [token |-> Some(<<>>), url |-> Some(<<>>)] }

PathMe == <<"/", "m", "e">>

PathT == <<"/", "t">>

Requests ==
    { Req(GET, PathMe, JUndefined),
      Req(GET, <<"/", "x", "/">> \o TokenPlain, JUndefined),
      Req(GET, <<"/", "x", "/">> \o TokenShaped, JUndefined),
      Req(POST, PathT, JObj(<<"t", "i", "t", "l", "e">>, JStr(<<"a">>))),
      Req(POST, PathT, JNum(0)),
      Req(PATCH, PathT, JBool(FALSE)),
      Req(POST, PathT, JStr(<<>>)),
      Req(DELETE, PathT, JNull),
      Req(PATCH, PathT, JArr(<<>>)) }

Resp(status, statusText) == [status |-> status, statusText |-> statusText]

Responses ==
    { Resp(200, <<"O", "K">>),
      Resp(404, <<"N", "o", "t", " ", "F", "o", "u", "n", "d">>),
      Resp(429, <<"T", "o", "o", " ", "M", "a", "n", "y", " ", "R", "e", "q", "u", "e", "s", "t", "s">>),
      Resp(500, <<"I", "n", "t", "e", "r", "n", "a", "l", " ", "S", "e", "r", "v", "e", "r", " ", "E", "r", "r", "o", "r">>) }

\* values fetch() may reject with
Throwns ==
    { Err(<<"c", "o", "n", "n", "e", "c", "t", " ", "E", "C", "O", "N", "N", "R", "E", "F", "U", "S", "E", "D", " ", "1", "2", "7", ".", "0", ".", "0", ".", "1", ":", "4", "4", "3">>),
      Err(<<"a", "b", "o", "r", "t", "e", "d">>),
      ThrownStr(<<"b", "o", "o", "m">>) }

\* settled res.text(): None when the read rejected, else the body text
Texts ==
    { None,
      Some(<<>>),
      Some(<<"g", "o", "n", "e">>),
      Some(<<"u", "p", "s", "t", "r", "e", "a", "m", " ", "f", "e", "t", "c", "h", " ", "f", "a", "i", "l", "e", "d">>) }

JsonA == JObj(<<"i", "d">>, JNum(1))

JsonB == JArr(<<>>)

\* settled res.json(): a decoded value, or the SyntaxError of an undecodable body
Jsons ==
    { JsonOk(JsonA),
      JsonOk(JsonB),
      JsonFail(Err(<<"U", "n", "e", "x", "p", "e", "c", "t", "e", "d", " ", "e", "n", "d", " ", "o", "f", " ", "J", "S", "O", "N", " ", "i", "n", "p", "u", "t">>)),
      JsonFail(Err(<<"U", "n", "e", "x", "p", "e", "c", "t", "e", "d", " ", "t", "o", "k", "e", "n", " ", "'", "H", "'", ",", " ", "\"", "H", "T", "T", "P", " ", "5", "0", "2", " ", "B", "\"", ".", ".", ".", " ", "i", "s", " ", "n", "o", "t", " ", "v", "a", "l", "i", "d", " ", "J", "S", "O", "N">>)) }

\* the values another task may assign to the body object's property
BodyEdits == { JStr(<<"b">>) }

\* how a write to a broken process.stderr may fail: by throwing, or by
\* reporting the failure on the stream while write() returns
WriteFailures ==
    { [threw |-> TRUE, message |-> <<"w", "r", "i", "t", "e", " ", "E", "P", "I", "P", "E">>],
      [threw |-> FALSE, message |-> <<"w", "r", "i", "t", "e", " ", "E", "P", "I", "P", "E">>] }

\* the smaller inputs of the concurrent specification
ConcRequests == { Req(POST, PathT, JNum(7)) }

ConcResponses == { r \in Responses : r.status \in {200, 500} }

ConcJsons == { JsonOk(JsonA) }

ConcTexts == { Some(<<"g", "o", "n", "e">>) }

\* the responses of the specification with fairness
LiveResponses == { r \in Responses : r.status \in {200, 404, 500} }

\* request() called directly, and the shorthands called, in SpecMethods
MethodRequests == { Req(GET, PathT, JUndefined), Req(DELETE, PathT, JNum(7)) }

Shorthands ==
    { Shorthand("get", PathT, JUndefined),
      Shorthand("post", PathT, JNum(7)),
      Shorthand("put", PathT, JNum(7)),
      Shorthand("patch", PathT, JNum(7)),
      Shorthand("delete", PathT, JNum(7)),
      Shorthand("delete", PathT, JUndefined) }

MethodThrowns == { t \in Throwns : t.isError /\ IsRetryable(t.message) }

\* the pieces log() messages are assembled from in SpecLog
Pieces ==
    { TOKEN_PREFIX,
      TokenShaped,
      Repeat("a", TOKEN_HEX_LEN),
      Repeat("b", TOKEN_HEX_LEN - 1),
      <<"a">>,
      <<"A">>,
      <<"\n">>,
      <<"t", "o", "k", "e", "n", "=">> }

RECURSIVE Messages(_)
Messages(n) ==
    IF n = 0 THEN { <<>> }
    ELSE LET shorter == Messages(n - 1)
         IN shorter \cup { m \o p : m \in shorter, p \in Pieces }

(***************************************************************************)
(* Specifications.                                                         *)
(***************************************************************************)
InitBackend(E, B) ==
    /\ env \in E
    /\ mainPc = "load"
    /\ client = NoClient
    /\ tools = {}
    /\ calls = [c \in CallIds |-> IdleCall]
    /\ stderr = <<>>
    /\ logArgs = <<>>
    /\ stdout = <<>>
    /\ exitCode = None
    /\ backend \in B
    /\ handlers = [h \in HandlerIds |-> IdleHandler]

InitWith(E) == InitBackend(E, { JArr(<<>>) })

Init == InitWith(Envs)

\* one request() call at a time, with the full range of inputs
Next ==
    \/ ModuleLoad
    \/ RegisterTools
    \/ MainStart
    \/ Connected
    \/ ConnectFailed(<<"b", "o", "o", "m">>)
    \/ \E req \in Requests : Call(1, req)
    \/ \E resp \in Responses : FetchResolve(1, resp)
    \/ \E thrown \in Throwns : FetchReject(1, thrown)
    \/ \E text \in Texts : TextSettle(1, text)
    \/ \E j \in Jsons : JsonSettle(1, j)
    \/ SleepDone(1)
    \/ \E val \in BodyEdits : MutateBody(1, val)

Spec == Init /\ [][Next]_vars

\* the same, with a diagnostic channel that may fail
NextWriteFail ==
    \/ ModuleLoad
    \/ RegisterTools
    \/ MainStart
    \/ Connected
    \/ \E req \in ConcRequests : Call(1, req)
    \/ \E resp \in Responses : FetchResolve(1, resp)
    \/ \E thrown \in Throwns : FetchReject(1, thrown)
    \/ \E text \in ConcTexts : TextSettle(1, text)
    \/ \E j \in ConcJsons : JsonSettle(1, j)
    \/ SleepDone(1)
    \/ \E failure \in WriteFailures : SleepDoneWriteFails(1, failure)

SpecWriteFail == Init /\ [][NextWriteFail]_vars

\* one request() call whose awaits all settle in the end: every dispatched
\* fetch resolves or rejects, every body read settles, every backoff timer
\* fires (setTimeout, client.js:84-86)
NextLive ==
    \/ ModuleLoad
    \/ RegisterTools
    \/ MainStart
    \/ Connected
    \/ \E req \in ConcRequests : Call(1, req)
    \/ \E resp \in LiveResponses : FetchResolve(1, resp)
    \/ \E thrown \in Throwns : FetchReject(1, thrown)
    \/ \E text \in ConcTexts : TextSettle(1, text)
    \/ \E j \in ConcJsons : JsonSettle(1, j)
    \/ SleepDone(1)

AttemptCompletes(c) ==
    \/ \E resp \in LiveResponses : FetchResolve(c, resp)
    \/ \E thrown \in Throwns : FetchReject(c, thrown)

BodyReadCompletes(c) ==
    \/ \E text \in ConcTexts : TextSettle(c, text)
    \/ \E j \in ConcJsons : JsonSettle(c, j)

FairLive ==
    \A c \in CallIds :
        /\ WF_vars(AttemptCompletes(c))
        /\ WF_vars(BodyReadCompletes(c))
        /\ WF_vars(SleepDone(c))

SpecLive == Init /\ [][NextLive]_vars /\ FairLive

InitMethods == InitWith({ e \in Envs : e.token = Some(TokenShaped) })

\* call 1 made through request() itself; once it has ended, call 2 made
\* through a shorthand
NextMethods ==
    \/ ModuleLoad
    \/ RegisterTools
    \/ MainStart
    \/ Connected
    \/ \E req \in MethodRequests : Call(1, req)
    \/ \E sh \in Shorthands : calls[1].pc \in {"returned", "raised"} /\ CallShorthand(2, sh)
    \/ \E c \in {1, 2}, resp \in ConcResponses : FetchResolve(c, resp)
    \/ \E c \in {1, 2}, thrown \in MethodThrowns : FetchReject(c, thrown)
    \/ \E c \in {1, 2}, text \in ConcTexts : TextSettle(c, text)
    \/ \E c \in {1, 2}, j \in ConcJsons : JsonSettle(c, j)
    \/ \E c \in {1, 2} : SleepDone(c)

SpecMethods == InitMethods /\ [][NextMethods]_vars

InitConc == InitWith({ e \in Envs : e.token = Some(TokenShaped) })

\* MaxCalls request() calls in flight at once
NextConc ==
    \/ ModuleLoad
    \/ RegisterTools
    \/ MainStart
    \/ Connected
    \/ \E c \in CallIds, req \in ConcRequests : Call(c, req)
    \/ \E c \in CallIds, resp \in ConcResponses : FetchResolve(c, resp)
    \/ \E c \in CallIds, text \in ConcTexts : TextSettle(c, text)
    \/ \E c \in CallIds, j \in ConcJsons : JsonSettle(c, j)
    \/ \E c \in CallIds : SleepDone(c)

SpecConc == InitConc /\ [][NextConc]_vars

InitLog == InitWith({ e \in Envs : e.token = Some(TokenShaped) })

\* log() applied to one message
NextLog == \E msg \in Messages(MaxPieces) : LogCall(msg)

SpecLog == InitLog /\ [][NextLog]_vars

\* the model ids the runs are called with (two of the four of the enum), the
\* answer text, and what new Date().toISOString() gives
ModelIds == { "claude", "gpt" }

AnswerTexts == { "new" }

Times == { "t1" }

\* what the backend may store as answers before the runs: no list, an empty
\* one, one with an answer of a model, one with two answers of a model
Backends ==
    { JNull,
      JArr(<<>>),
      JArr(<<Entry("gemini", "old", "t0"), Entry("claude", "old", "t0")>>),
      JArr(<<Entry("gpt", "old", "t0"), Entry("claude", "old", "t0"),
             Entry("claude", "older", "t0")>>) }

\* the packs a GET may be answered with: the stored answers in their place,
\* or a body without the exhelp object, or no body
PacksOf(stored) == { Pack(stored), JObj(<<"i", "d">>, JNum(1)), JUndefined }

InitExhelp == InitBackend({ e \in Envs : e.token = Some(TokenShaped) }, Backends)

\* MaxHandlers runs of add_exhelp_answer on one Ex-Help request
NextExhelp ==
    \/ ModuleLoad
    \/ RegisterTools
    \/ MainStart
    \/ Connected
    \/ \E h \in HandlerIds, m \in ModelIds, t \in AnswerTexts : AddExhelpAnswer(h, m, t)
    \/ \E h \in HandlerIds, pack \in PacksOf(backend) : GetServed(h, pack)
    \/ \E h \in HandlerIds : GetRejects(h)
    \/ \E h \in HandlerIds, now \in Times : SendPatch(h, now)
    \/ \E h \in HandlerIds : PatchServed(h)
    \/ \E h \in HandlerIds : PatchRejects(h)
    \/ \E h \in HandlerIds : HandlerReturns(h)

SpecExhelp == InitExhelp /\ [][NextExhelp]_vars

(***************************************************************************)
(* Readings of a call's event history, used to state the properties.       *)
(***************************************************************************)
EventsOf(k, type) == SelectSeq(k.events, LAMBDA e : e.type = type)

\* the network attempts made so far
Attempts(k) == Len(EventsOf(k, "dispatch"))

\* the backoff delays so far, in order
Delays(k) == [i \in 1..Len(EventsOf(k, "sleep")) |-> EventsOf(k, "sleep")[i].ms]

\* what the environment answered so far: responses, rejections, body reads
Answers(k) == SelectSeq(k.events, LAMBDA e : e.type \in {"response", "throw", "text", "json"})

Finished(k) == k.pc \in {"returned", "raised"}

\* the statuses of the responses attempt a (0-based) got
StatusesAt(k, a) ==
    { k.events[i].status :
        i \in { j \in 1..Len(k.events) :
                  k.events[j].type = "response" /\ k.events[j].attempt = a } }

Is2xx(status) == status >= 200 /\ status <= 299

Is429or5xx(status) == status = 429 \/ status >= 500

IsOtherFailure(status) == ~Is2xx(status) /\ ~Is429or5xx(status)

\* the fetch of attempt a rejected with a network-failure signature
ThrewNetworkFailure(k, a) ==
    \E i \in 1..Len(k.events) :
        /\ k.events[i].type = "throw"
        /\ k.events[i].attempt = a
        /\ \E sig \in { <<"e", "c", "o", "n", "n", "r", "e", "s", "e", "t">>,
                        <<"e", "c", "o", "n", "n", "r", "e", "f", "u", "s", "e", "d">>,
                        <<"e", "t", "i", "m", "e", "d", "o", "u", "t">>,
                        <<"f", "e", "t", "c", "h", " ", "f", "a", "i", "l", "e", "d">> } :
               Includes(ToLower(k.events[i].thrown.message), sig)

\* a dispatch for an attempt later than a exists
DispatchedAfter(k, a) ==
    \E i \in 1..Len(k.events) : k.events[i].type = "dispatch" /\ k.events[i].attempt > a

(***************************************************************************)
(* C1.  A response with a non-success status other than 429 and >= 500 is  *)
(* never retried: whatever its body text and status text, no attempt is    *)
(* dispatched after it and the call ends by raising.  (Stated as claimed;  *)
(* TLC refutes it: the error thrown for such a status is caught by         *)
(* the loop's own catch block and classified by its message text.)         *)
(***************************************************************************)
C1_FatalStatusNeverRetried ==
    \A c \in CallIds : \A a \in 0..MAX_RETRIES :
        (\E st \in StatusesAt(calls[c], a) : IsOtherFailure(st)) =>
            /\ ~DispatchedAfter(calls[c], a)
            /\ calls[c].pc \in {"readingText", "raised"}

(***************************************************************************)
(* C2.  When every attempt was answered by a response with status 429 or   *)
(* >= 500, the call makes exactly 4 attempts, backs off 1000, 2000 and     *)
(* 4000 ms between them, in that order, and raises a failure whose message *)
(* embeds the status of the 4th response.                                  *)
(***************************************************************************)
OnlyRetryStatuses(k) ==
    /\ EventsOf(k, "throw") = <<>>
    /\ EventsOf(k, "json") = <<>>
    /\ \A i \in 1..Len(k.events) :
          k.events[i].type = "response" => Is429or5xx(k.events[i].status)

C2_ExhaustedRetries ==
    \A c \in CallIds :
        LET k == calls[c]
            rs == EventsOf(k, "response")
        IN OnlyRetryStatuses(k) =>
              /\ Attempts(k) <= 4
              /\ Delays(k) = SubSeq(<<1000, 2000, 4000>>, 1, Len(Delays(k)))
              /\ Len(rs) = 4 => k.pc \in {"readingText", "raised"}
              /\ Finished(k) =>
                    /\ Attempts(k) = 4
                    /\ Len(rs) = 4
                    /\ Delays(k) = <<1000, 2000, 4000>>
                    /\ k.result[1].kind = "raised"
                    /\ Includes(k.result[1].message, NatToStr(rs[4].status))

C2_Witness ==
    /\ calls[1].pc = "raised"
    /\ OnlyRetryStatuses(calls[1])
    /\ Len(EventsOf(calls[1], "response")) = 4
    /\ EventsOf(calls[1], "response")[4].status = 429
    /\ EventsOf(calls[1], "response")[1].status = 500

(***************************************************************************)
(* C3.  A response with status 200-299 on the first attempt ends the call  *)
(* after exactly one attempt - no retry, no backoff, no retry notice - and *)
(* what the call returns is exactly the decoded body.  (Stated as claimed; *)
(* TLC refutes it: a failed decode of the body is thrown into the          *)
(* catch block, which retries it when its message carries a signature.)    *)
(***************************************************************************)
C3_SuccessFirstAttempt ==
    \A c \in CallIds :
        LET k == calls[c]
        IN (\E st \in StatusesAt(k, 0) : Is2xx(st)) =>
              /\ Attempts(k) = 1
              /\ Delays(k) = <<>>
              /\ EventsOf(k, "log") = <<>>
              /\ k.pc = "returned" =>
                    /\ EventsOf(k, "json")[1].json.ok
                    /\ k.result[1].value = EventsOf(k, "json")[1].json.value

(***************************************************************************)
(* C4.  If the first n dispatches (1 <= n <= 3) each fail retryably (a     *)
(* thrown network failure, or a 429 / >= 500 status) and dispatch n+1 gets *)
(* a 2xx status, the call has performed exactly n+1 attempts and what it   *)
(* returns is that decoded result.  (Stated as claimed; refuted for the    *)
(* reason of C3: the 2xx response is itself retried.)                      *)
(***************************************************************************)
FailedRetryably(k, a) == ThrewNetworkFailure(k, a) \/ (\E st \in StatusesAt(k, a) : Is429or5xx(st))

C4_RetryThenSuccess ==
    \A c \in CallIds : \A n \in 1..3 :
        LET k == calls[c]
        IN (/\ \A a \in 0..(n - 1) : FailedRetryably(k, a)
            /\ (\E st \in StatusesAt(k, n) : Is2xx(st))) =>
              /\ Attempts(k) = n + 1
              /\ k.pc = "returned" =>
                    k.result[1].value = EventsOf(k, "json")[Len(EventsOf(k, "json"))].json.value

(***************************************************************************)
(* C5.  In every reachable state, whatever responses and thrown errors the *)
(* call met, it has made at most 4 network attempts.                       *)
(***************************************************************************)
C5_AtMostFourAttempts == \A c \in CallIds : Attempts(calls[c]) <= 4

C5_Witness ==
    /\ Attempts(calls[1]) = 4
    /\ Finished(calls[1])
    /\ EventsOf(calls[1], "throw") # <<>>
    /\ EventsOf(calls[1], "response") # <<>>

(***************************************************************************)
(* C6.  Whenever a body argument is present, every attempt dispatches the  *)
(* JSON encoding of that value, also for 0, false, "" and null.  (Stated   *)
(* as claimed; TLC refutes it: the payload is chosen by the body's         *)
(* truthiness.)                                                            *)
(***************************************************************************)
C6_BodyAlwaysSent ==
    \A c \in CallIds : \A i \in 1..Len(calls[c].events) :
        (calls[c].events[i].type = "dispatch" /\ ~IsUndefined(calls[c].body)) =>
            calls[c].events[i].payload = Some(JsonStringify(calls[c].body))

(***************************************************************************)
(* C7.  A call made with no body dispatches no payload at all, on the      *)
(* first attempt and on every retry: the payload is absent, not an empty   *)
(* payload.                                                                *)
(***************************************************************************)
C7_NoBodyNoPayload ==
    \A c \in CallIds : \A i \in 1..Len(calls[c].events) :
        (calls[c].events[i].type = "dispatch" /\ IsUndefined(calls[c].body)) =>
            /\ calls[c].events[i].payload = None
            /\ calls[c].events[i].payload # Some(<<>>)

C7_Witness ==
    /\ IsUndefined(calls[1].body)
    /\ Attempts(calls[1]) = 4
    /\ \A i \in 1..4 : EventsOf(calls[1], "dispatch")[i].payload = None

(***************************************************************************)
(* C8.  No line written by log() - the retry notices of request() and the  *)
(* start-up notices included - contains the client's credential, for every *)
(* credential, method, path and base address.  (Stated as claimed; TLC     *)
(* refutes it: only substrings of one fixed shape are redacted.)           *)
(***************************************************************************)
C8_CredentialNeverLogged ==
    \A i \in 1..Len(stderr) :
        (client.made /\ logArgs[i] # None) => ~Includes(stderr[i], client.token)

(***************************************************************************)
(* Readings of a logged message.                                           *)
(***************************************************************************)
\* s contains a substring of the credential shape
HasShape(s) == \E p \in 1..Len(s) : ShapeAt(s, p)

\* the 64-character tails of the credential-shaped substrings of msg
TailsOf(msg) ==
    { SubSeq(msg, j + Len(TOKEN_PREFIX), j + ShapeLen - 1) : j \in MatchesFrom(msg, 1) }

\* t occurs in msg wholly outside every credential-shaped substring
OccursOutside(msg, t) ==
    \E p \in 1..(Len(msg) - Len(t) + 1) :
        /\ SubSeq(msg, p, p + Len(t) - 1) = t
        /\ \A j \in MatchesFrom(msg, 1) : p + Len(t) - 1 < j \/ p >= j + ShapeLen

\* how many times needle occurs in hay
Occurrences(hay, needle) ==
    Cardinality({ p \in 1..(Len(hay) - Len(needle) + 1) :
                    SubSeq(hay, p, p + Len(needle) - 1) = needle })

(***************************************************************************)
(* C9 as claimed.  For every message, the line log() writes contains the   *)
(* placeholder in place of every credential-shaped substring, contains no  *)
(* credential-shaped substring, and contains none of the 64-character      *)
(* tails of the substrings it replaced.  (Refuted: a tail survives when    *)
(* the message also carries the same run outside a credential.)            *)
(***************************************************************************)
C9_NoTailSurvives ==
    \A i \in 1..Len(stderr) :
        logArgs[i] # None =>
            LET msg == logArgs[i][1]
            IN /\ ~HasShape(stderr[i])
               /\ Occurrences(stderr[i], REDACTED) = Cardinality(MatchesFrom(msg, 1))
               /\ \A t \in TailsOf(msg) : ~Includes(stderr[i], t)

(***************************************************************************)
(* C9 as amended.  For every message, the line log() writes is the tag,    *)
(* the message with the placeholder in place of every credential-shaped    *)
(* substring, and a newline; it contains no credential-shaped substring;   *)
(* and the tail of a replaced substring occurs in it only when the message *)
(* carries that same run outside every credential-shaped substring.        *)
(***************************************************************************)
C9_ShapesRedacted ==
    \A i \in 1..Len(stderr) :
        logArgs[i] # None =>
            LET msg == logArgs[i][1]
                line == stderr[i]
            IN /\ ~HasShape(line)
               /\ Occurrences(line, REDACTED) = Cardinality(MatchesFrom(msg, 1))
               /\ Len(line) = Len(LOG_TAG) + Len(msg) + 1
                                - Cardinality(MatchesFrom(msg, 1)) * (ShapeLen - Len(REDACTED))
               /\ SubSeq(line, 1, Len(LOG_TAG)) = LOG_TAG
               /\ line[Len(line)] = "\n"
               /\ \A t \in TailsOf(msg) : Includes(line, t) => OccursOutside(msg, t)

\* log("token=reen_" + 64 x "a") wrote "[reen-mcp] token=reen_***REDACTED***\n"
C9_Witness ==
    /\ Len(stderr) = 1
    /\ logArgs[1] = Some(<<"t", "o", "k", "e", "n", "=">> \o TOKEN_PREFIX \o Repeat("a", 64))
    /\ stderr[1] = LOG_TAG \o <<"t", "o", "k", "e", "n", "=">> \o REDACTED \o <<"\n">>
    /\ ~Includes(stderr[1], Repeat("a", 64))

(***************************************************************************)
(* C10.  Calls in flight at once on one client are independent under every *)
(* interleaving: two calls made with the same arguments that were answered *)
(* alike and stand at the same point agree in everything - attempts,       *)
(* delays, payloads, recorded error and outcome - and the client's base    *)
(* address and credential stay what the constructor made of the            *)
(* configuration.                                                          *)
(***************************************************************************)
SameRequest(k1, k2) ==
    k1.method = k2.method /\ k1.path = k2.path /\ k1.body = k2.body

C10_CallsIndependent ==
    /\ \A c1, c2 \in CallIds :
          (/\ SameRequest(calls[c1], calls[c2])
           /\ Answers(calls[c1]) = Answers(calls[c2])
           /\ calls[c1].pc = calls[c2].pc) =>
              /\ calls[c1] = calls[c2]
              /\ Delays(calls[c1]) = Delays(calls[c2])
              /\ Attempts(calls[c1]) = Attempts(calls[c2])
    /\ client.made =>
          /\ client.token = env.token[1]
          /\ client.baseUrl = StripTrailingSlash(OrElse(env.url, DEFAULT_BASE_URL))

\* two calls with the same arguments in flight at once, one a retry ahead
C10_Witness ==
    /\ SameRequest(calls[1], calls[2])
    /\ calls[1].pc = "sleeping" /\ calls[1].attempt = 2
    /\ calls[2].pc = "fetching" /\ calls[2].attempt = 1
    /\ Len(stderr) > 3

\* two calls that ran interleaved and were answered alike, both finished
C10_WitnessDone ==
    /\ SameRequest(calls[1], calls[2])
    /\ calls[1].pc = "returned" /\ calls[2].pc = "returned"
    /\ Answers(calls[1]) = Answers(calls[2])
    /\ Attempts(calls[1]) = 3

(***************************************************************************)
(* C11.  Within one call, the payload dispatched on every retry is         *)
(* identical to the payload dispatched on the first attempt, also when     *)
(* other tasks run while the call is suspended.  (Stated as claimed; TLC   *)
(* refutes it: the body is a reference and is serialized anew at each      *)
(* attempt, so an assignment made by its holder during a backoff shows in  *)
(* the next payload.)                                                      *)
(***************************************************************************)
C11_SamePayloadEveryAttempt ==
    \A c \in CallIds :
        LET ds == EventsOf(calls[c], "dispatch")
        IN \A i \in 1..Len(ds) : ds[i].payload = ds[1].payload

(***************************************************************************)
(* C12.  A failure of the log write is never propagated: when the retry    *)
(* notice of attempt a cannot be written, the call still dispatches        *)
(* attempt a, and what it raises in the end is never the write's failure.  *)
(* (Stated as claimed; TLC refutes it: a throwing write is caught by       *)
(* nothing and ends the call.)                                             *)
(***************************************************************************)
C12_WriteFailureNotPropagated ==
    \A c \in CallIds : \A i \in 1..Len(calls[c].events) :
        LET k == calls[c]
            e == k.events[i]
        IN e.type = "writeFailed" =>
              /\ \E j \in (i + 1)..Len(k.events) :
                    k.events[j].type = "dispatch" /\ k.events[j].attempt = e.attempt
              /\ k.pc = "raised" => k.result[1].message # e.failure.message

(***************************************************************************)
(* C13.  Every dispatched attempt, the first and the retries alike, goes   *)
(* to the URL made of the client's base address followed by the path, and  *)
(* carries exactly the headers Authorization: "Bearer " + the credential   *)
(* the client was constructed with, Content-Type: application/json and     *)
(* User-Agent: reen-mcp-server/0.1.0.                                      *)
(***************************************************************************)
C13_UrlAndHeaders ==
    \A c \in CallIds : \A i \in 1..Len(calls[c].events) :
        LET k == calls[c]
            e == k.events[i]
        IN e.type = "dispatch" =>
              /\ e.url = client.baseUrl \o k.path
              /\ e.method = k.method
              /\ DOMAIN e.headers = {"Authorization", "ContentType", "UserAgent"}
              /\ e.headers.Authorization = <<"B", "e", "a", "r", "e", "r", " ">> \o env.token[1]
              /\ e.headers.ContentType = <<"a", "p", "p", "l", "i", "c", "a", "t", "i", "o", "n", "/", "j", "s", "o", "n">>
              /\ e.headers.UserAgent = <<"r", "e", "e", "n", "-", "m", "c", "p", "-", "s", "e", "r", "v", "e", "r", "/", "0", ".", "1", ".", "0">>

\* four attempts of GET /me on the client for https://h/ with credential tok-1
C13_Witness ==
    /\ Attempts(calls[1]) = 4
    /\ EventsOf(calls[1], "dispatch")[4].url = <<"h", "t", "t", "p", "s", ":", "/", "/", "h", "/", "m", "e">>
    /\ EventsOf(calls[1], "dispatch")[4].headers.Authorization = <<"B", "e", "a", "r", "e", "r", " ", "t", "o", "k", "-", "1">>
    /\ EventsOf(calls[1], "dispatch")[1].headers = EventsOf(calls[1], "dispatch")[4].headers

(***************************************************************************)
(* C14.  After construction, whatever base address was supplied, the       *)
(* client's stored base address has no trailing slash, and an absent or    *)
(* empty base address yields the default https://backend.reen.tech.        *)
(* (Stated as claimed; TLC refutes it: one trailing slash is removed, so   *)
(* an address ending in two keeps one.)                                    *)
(***************************************************************************)
C14_NoTrailingSlash ==
    client.made =>
        /\ client.baseUrl = <<>> \/ client.baseUrl[Len(client.baseUrl)] # "/"
        /\ (env.url = None \/ env.url = Some(<<>>)) =>
              client.baseUrl = <<"h", "t", "t", "p", "s", ":", "/", "/", "b", "a", "c", "k", "e", "n", "d", ".", "r", "e", "e", "n", ".", "t", "e", "c", "h">>

(***************************************************************************)
(* C15.  When the credential is absent at start-up (REEN_API_TOKEN unset,  *)
(* or set to the empty string), the process halts with exit code 1 before  *)
(* any ReenClient is constructed, before any tool is registered and before *)
(* any network request is dispatched: start-up never gets past the token   *)
(* test.                                                                   *)
(***************************************************************************)
C15_HaltsBeforeClient ==
    (env.token = None \/ env.token = Some(<<>>)) =>
        /\ mainPc \in {"load", "exited"}
        /\ mainPc = "exited" <=> exitCode = Some(1)
        /\ exitCode \in {None, Some(1)}
        /\ ~client.made
        /\ tools = {}
        /\ \A c \in CallIds : calls[c].pc = "idle" /\ calls[c].events = <<>>
        /\ \A i \in 1..Len(stderr) : logArgs[i] = None

\* REEN_API_TOKEN unset: the process has exited with code 1
C15_Witness ==
    /\ env.token = None
    /\ mainPc = "exited"
    /\ exitCode = Some(1)
    /\ Len(stderr) = 1

(***************************************************************************)
(* C16.  When the final attempt (attempt index 3) gets a response with     *)
(* status 429 or >= 500, the failure the call raises carries that status   *)
(* and the status text of that response.  (Stated as claimed; TLC refutes  *)
(* it: the error recorded with the status text is replaced by one built    *)
(* from the body text when the body read yields a non-empty text.)         *)
(***************************************************************************)
C16_FinalStatusText ==
    \A c \in CallIds : \A i \in 1..Len(calls[c].events) :
        LET k == calls[c]
            e == k.events[i]
        IN (/\ e.type = "response"
            /\ e.attempt = 3
            /\ Is429or5xx(e.status)
            /\ k.pc = "raised") =>
              /\ k.result[1].kind = "raised"
              /\ Includes(k.result[1].message, NatToStr(e.status))
              /\ Includes(k.result[1].message, e.statusText)

(***************************************************************************)
(* C17.  When a dispatch throws at attempt a, the call continues to the    *)
(* next attempt if and only if attempts remain (a < 3) and the thrown      *)
(* message, lower-cased, contains one of econnreset, econnrefused,         *)
(* etimedout, "fetch failed", "http 429", "http 5"; otherwise it raises    *)
(* that same error at once, with no further dispatch.                      *)
(***************************************************************************)
HasSignature(message) ==
    LET lowered == ToLower(message)
    IN \E sig \in { <<"e", "c", "o", "n", "n", "r", "e", "s", "e", "t">>,
                  <<"e", "c", "o", "n", "n", "r", "e", "f", "u", "s", "e", "d">>,
                  <<"e", "t", "i", "m", "e", "d", "o", "u", "t">>,
                  <<"f", "e", "t", "c", "h", " ", "f", "a", "i", "l", "e", "d">>,
                  <<"h", "t", "t", "p", " ", "4", "2", "9">>,
                  <<"h", "t", "t", "p", " ", "5">> } :
          Includes(lowered, sig)

C17_ThrownDispatch ==
    \A c \in CallIds : \A i \in 1..Len(calls[c].events) :
        LET k == calls[c]
            e == k.events[i]
        IN e.type = "throw" =>
              IF e.attempt < 3 /\ HasSignature(e.thrown.message)
              THEN /\ i < Len(k.events)
                   /\ k.events[i + 1].type = "sleep"
                   /\ k.events[i + 1].ms = <<1000, 2000, 4000>>[e.attempt + 1]
                   /\ i + 1 = Len(k.events) => k.pc = "sleeping" /\ k.attempt = e.attempt + 1
              ELSE /\ i = Len(k.events)
                   /\ k.pc = "raised"
                   /\ k.result[1] = [kind |-> "raised", message |-> e.thrown.message]
                   /\ ~DispatchedAfter(k, e.attempt)

\* attempt 0 threw ECONNREFUSED and was retried; attempt 1 threw an error
\* with no signature and ended the call after two attempts
C17_Witness ==
    /\ calls[1].pc = "raised"
    /\ Attempts(calls[1]) = 2
    /\ Len(EventsOf(calls[1], "throw")) = 2
    /\ HasSignature(EventsOf(calls[1], "throw")[1].thrown.message)
    /\ EventsOf(calls[1], "throw")[2].thrown = Err(<<"a", "b", "o", "r", "t", "e", "d">>)
    /\ calls[1].result[1].message = <<"a", "b", "o", "r", "t", "e", "d">>

\* the fourth attempt threw a retryable error: no attempt remains, it is raised
C17_WitnessExhausted ==
    /\ calls[1].pc = "raised"
    /\ Attempts(calls[1]) = 4
    /\ Len(EventsOf(calls[1], "throw")) = 4
    /\ HasSignature(calls[1].result[1].message)

(***************************************************************************)
(* C18.  When all four attempts end in retryable failures - any mix of     *)
(* 429 / >= 500 statuses and thrown errors carrying a signature - the      *)
(* failure raised to the caller is the one the last attempt produced: the  *)
(* error its fetch threw, or the HTTP error built from its response; never *)
(* one recorded at an earlier attempt.                                     *)
(***************************************************************************)
\* attempt a ended in a retryable failure
RetryableFailureAt(k, a) ==
    \/ \E st \in StatusesAt(k, a) : Is429or5xx(st)
    \/ \E i \in 1..Len(k.events) :
          /\ k.events[i].type = "throw"
          /\ k.events[i].attempt = a
          /\ HasSignature(k.events[i].thrown.message)

\* the messages of the failures attempt a produced
FailuresAt(k, a) ==
    { k.events[i].thrown.message :
        i \in { j \in 1..Len(k.events) :
                  k.events[j].type = "throw" /\ k.events[j].attempt = a } }
    \cup
    { HttpMessage(k.res[1].status,
                  IF k.events[i].text # None /\ k.events[i].text # Some(<<>>)
                  THEN k.events[i].text[1] ELSE k.res[1].statusText) :
        i \in { j \in 1..Len(k.events) :
                  k.events[j].type = "text" /\ k.events[j].attempt = a } }

C18_LastFailureSurfaces ==
    \A c \in CallIds :
        LET k == calls[c]
        IN ((\A a \in 0..3 : RetryableFailureAt(k, a)) /\ Finished(k)) =>
              /\ k.pc = "raised"
              /\ Attempts(k) = 4
              /\ FailuresAt(k, 3) = { k.result[1].message }

\* ECONNREFUSED, then 500, then 429, then 500 with the body text "gone":
\* the call raised "HTTP 500: gone"
C18_Witness ==
    /\ calls[1].pc = "raised"
    /\ \A a \in 0..3 : RetryableFailureAt(calls[1], a)
    /\ EventsOf(calls[1], "throw") # <<>>
    /\ StatusesAt(calls[1], 2) = {429}
    /\ StatusesAt(calls[1], 3) = {500}
    /\ calls[1].result[1].message = <<"H", "T", "T", "P", " ", "5", "0", "0", ":", " ", "g", "o", "n", "e">>

(***************************************************************************)
(* C19.  For every attempt a >= 1 the events come in this order: a         *)
(* suspension of exactly 1000 * 2^(a-1) ms, then exactly one log line      *)
(* naming retry a of 3 with the method and the path (as log() writes it),  *)
(* then the dispatch of attempt a.  Attempt 0 is dispatched first, with no *)
(* suspension and no log line before it, so the retry log lines always     *)
(* number the attempts minus one.                                          *)
(***************************************************************************)
\* "Retry a/3 for METHOD PATH"
RetryText(a, method, path) ==
    <<"R", "e", "t", "r", "y", " ">> \o <<<<"1">>, <<"2">>, <<"3">>>>[a]
        \o <<"/", "3", " ", "f", "o", "r", " ">> \o method \o <<" ">> \o path

C19_SleepLogDispatch ==
    \A c \in CallIds :
        LET k == calls[c]
            ds == EventsOf(k, "dispatch")
            ls == EventsOf(k, "log")
        IN /\ \A j \in 1..Len(ds) : ds[j].attempt = j - 1
           /\ \A j \in 1..Len(ls) : ls[j].attempt = j
           /\ Len(ds) > 0 => Len(ls) = Len(ds) - 1
           /\ c = 1 => SubSeq(stderr, 4, Len(stderr)) = [j \in 1..Len(ls) |-> ls[j].line]
           /\ \A i \in 1..Len(k.events) :
                 k.events[i].type = "dispatch" =>
                    IF k.events[i].attempt = 0
                    THEN i = 1
                    ELSE LET a == k.events[i].attempt
                         IN /\ i >= 3
                            /\ k.events[i - 2] = [type |-> "sleep", ms |-> <<1000, 2000, 4000>>[a]]
                            /\ k.events[i - 1].type = "log"
                            /\ k.events[i - 1].attempt = a
                            /\ k.events[i - 1].line =
                                  LOG_TAG \o Redact(RetryText(a, k.method, k.path)) \o <<"\n">>
                            /\ ~HasShape(k.path) =>
                                  k.events[i - 1].line =
                                     LOG_TAG \o RetryText(a, k.method, k.path) \o <<"\n">>

\* three retries of PATCH /t: 1000, 2000, 4000 ms, three notices, four dispatches
C19_Witness ==
    /\ Attempts(calls[1]) = 4
    /\ calls[1].method = PATCH
    /\ Delays(calls[1]) = <<1000, 2000, 4000>>
    /\ Len(stderr) = 6
    /\ stderr[6] = <<"[", "r", "e", "e", "n", "-", "m", "c", "p", "]", " ", "R", "e", "t", "r", "y", " ", "3", "/", "3", " ", "f", "o", "r", " ", "P", "A", "T", "C", "H", " ", "/", "t", "\n">>

(***************************************************************************)
(* C20.  In every call the backoff delays sum to at most 1000 + 2000 +     *)
(* 4000 = 7000 ms, and to exactly 1000 * (2^r - 1) ms when r retries were  *)
(* made (r backoffs begun; r = attempts - 1 whenever the call is not in a  *)
(* backoff).                                                               *)
(***************************************************************************)
RECURSIVE Sum(_)
Sum(seq) == IF seq = <<>> THEN 0 ELSE Head(seq) + Sum(Tail(seq))

C20_TotalBackoff ==
    \A c \in CallIds :
        LET k == calls[c]
            r == Len(Delays(k))
        IN /\ r <= 3
           /\ Sum(Delays(k)) <= 7000
           /\ Sum(Delays(k)) = 1000 * (<<1, 2, 4, 8>>[r + 1] - 1)
           /\ (k.pc \notin {"idle", "sleeping"}) => r = Attempts(k) - 1
           /\ k.pc = "sleeping" => r = Attempts(k)

\* a call that ended after three retries: 7000 ms of backoff in all
C20_Witness ==
    /\ Finished(calls[1])
    /\ Attempts(calls[1]) = 4
    /\ Sum(Delays(calls[1])) = 7000

(***************************************************************************)
(* C21.  The attempt loop never exits without returning or raising: every  *)
(* iteration ends by returning, by raising, or by continuing while         *)
(* attempt < MAX_RETRIES, so the throw that follows the loop - of the      *)
(* recorded failure, or of the generic "Request failed" - is never         *)
(* executed.                                                               *)
(***************************************************************************)
C21_PostLoopUnreachable ==
    \A c \in CallIds :
        LET k == calls[c]
        IN /\ EventsOf(k, "postLoop") = <<>>
           /\ k.attempt <= 3
           /\ k.pc = "raised" =>
                 /\ k.result[1].message # <<"R", "e", "q", "u", "e", "s", "t", " ", "f", "a", "i", "l", "e", "d">>
                 /\ k.events[Len(k.events)].type \in {"throw", "text", "json"}
           /\ k.pc = "returned" => k.events[Len(k.events)].type = "json"

\* the retries ran out on a fourth 429 / >= 500 response and the call raised
\* from inside the loop
C21_Witness ==
    /\ calls[1].pc = "raised"
    /\ calls[1].attempt = 3
    /\ StatusesAt(calls[1], 3) # {}
    /\ \A st \in StatusesAt(calls[1], 3) : Is429or5xx(st)

(***************************************************************************)
(* C22.  Every request() call that was made eventually returns a value or  *)
(* raises a failure, provided every dispatched attempt eventually          *)
(* completes (its fetch and its body read settle) and every backoff timer  *)
(* eventually fires: no call retries forever.                              *)
(***************************************************************************)
C22_EventuallyEnds ==
    \A c \in CallIds : (calls[c].pc # "idle") ~> Finished(calls[c])

\* a call that went through all four attempts and three backoffs and ended
C22_Witness ==
    /\ Finished(calls[1])
    /\ Attempts(calls[1]) = 4
    /\ Len(Delays(calls[1])) = 3
    /\ Len(Answers(calls[1])) >= 4

(***************************************************************************)
(* C23.  The retry policy does not depend on the HTTP method: met with the *)
(* same sequence of responses and thrown errors, a POST, PUT, PATCH or     *)
(* DELETE request makes exactly as many dispatches as a GET request -      *)
(* neither ends where the other goes on - and they end alike; so one POST  *)
(* whose attempts fail retryably is dispatched up to 4 times.  (In         *)
(* SpecMethods the body reads have one outcome each, so what the fetches   *)
(* gave decides the run.)                                                  *)
(***************************************************************************)
\* what the fetches of the call gave so far: responses and thrown errors
FetchOutcomes(k) == SelectSeq(k.events, LAMBDA e : e.type \in {"response", "throw"})

IsPrefix(s, t) == Len(s) <= Len(t) /\ SubSeq(t, 1, Len(s)) = s

C23_MethodBlindRetry ==
    \A c1, c2 \in CallIds :
        LET g == calls[c1]
            m == calls[c2]
        IN (/\ g.method = <<"G", "E", "T">>
            /\ m.method \in { <<"P", "O", "S", "T">>, <<"P", "U", "T">>,
                               <<"P", "A", "T", "C", "H">>, <<"D", "E", "L", "E", "T", "E">> }) =>
              /\ (Finished(m) /\ IsPrefix(FetchOutcomes(m), FetchOutcomes(g))) =>
                    Attempts(g) = Attempts(m)
              /\ (Finished(g) /\ IsPrefix(FetchOutcomes(g), FetchOutcomes(m))) =>
                    Attempts(m) = Attempts(g)
              /\ (Finished(g) /\ Finished(m) /\ FetchOutcomes(g) = FetchOutcomes(m)) =>
                    /\ g.result = m.result
                    /\ Delays(g) = Delays(m)
                    /\ Answers(g) = Answers(m)

\* a GET and a POST that each met four 500 responses: four dispatches each
C23_Witness ==
    /\ calls[1].method = GET /\ calls[2].method = POST
    /\ calls[1].pc = "raised" /\ calls[2].pc = "raised"
    /\ FetchOutcomes(calls[1]) = FetchOutcomes(calls[2])
    /\ Attempts(calls[2]) = 4
    /\ \A i \in 1..4 : EventsOf(calls[2], "dispatch")[i].method = POST

(***************************************************************************)
(* C27.  Each shorthand only fixes the method and forwards to request():   *)
(* get(path) is request("GET", path) with no body; post, put, patch and    *)
(* delete(path, body) are request with "POST", "PUT", "PATCH", "DELETE"    *)
(* and the same path and body.  A call made through a shorthand and a call *)
(* made through request() with those arguments, answered alike, agree in   *)
(* every attempt, delay, payload, log line and in the result or failure.   *)
(***************************************************************************)
\* the method a shorthand is documented to fix
MethodOf(name) ==
    CASE name = "get" -> <<"G", "E", "T">>
      [] name = "post" -> <<"P", "O", "S", "T">>
      [] name = "put" -> <<"P", "U", "T">>
      [] name = "patch" -> <<"P", "A", "T", "C", "H">>
      [] name = "delete" -> <<"D", "E", "L", "E", "T", "E">>

\* the body a shorthand is documented to pass on
BodyOf(sh) == IF sh.name = "get" THEN [undef |-> TRUE] ELSE sh.body

C27_ShorthandsForward ==
    /\ \A c \in CallIds :
          calls[c].via # None =>
             LET sh == calls[c].via[1]
             IN /\ calls[c].method = MethodOf(sh.name)
                /\ calls[c].path = sh.path
                /\ calls[c].body = BodyOf(sh)
                /\ calls[c].url = client.baseUrl \o sh.path
                /\ \A i \in 1..Len(calls[c].events) :
                      calls[c].events[i].type = "dispatch" =>
                         calls[c].events[i].method = MethodOf(sh.name)
    /\ \A c1, c2 \in CallIds :
          (/\ calls[c1].pc # "idle" /\ calls[c1].via = None
           /\ calls[c2].via # None
           /\ calls[c1].method = MethodOf(calls[c2].via[1].name)
           /\ calls[c1].path = calls[c2].via[1].path
           /\ calls[c1].body = BodyOf(calls[c2].via[1])
           /\ Answers(calls[c1]) = Answers(calls[c2])
           /\ calls[c1].pc = calls[c2].pc) =>
              [calls[c2] EXCEPT !.via = None] = calls[c1]

\* request("DELETE", "/t", 7) and delete("/t", 7), each retried once and
\* returned: the same events and the same result
C27_Witness ==
    /\ calls[1].via = None /\ calls[1].method = DELETE /\ calls[1].body = JNum(7)
    /\ calls[2].via = Some(Shorthand("delete", PathT, JNum(7)))
    /\ calls[1].pc = "returned" /\ calls[2].pc = "returned"
    /\ Attempts(calls[2]) = 2
    /\ calls[1].events = calls[2].events
    /\ calls[1].result = calls[2].result

(***************************************************************************)
(* C26.  Each log() call writes exactly one line to stderr, of the form    *)
(* "[reen-mcp] " + redacted message + newline, and leaves stdout           *)
(* unchanged; nothing the client does writes to stdout.  (Refuted: the     *)
(* message is written as it is, so a message that carries a newline puts   *)
(* more than one line on stderr.)                                          *)
(***************************************************************************)
\* the number of lines a write of text puts on the stream
LinesIn(text) == Cardinality({ i \in 1..Len(text) : text[i] = "\n" })

C26_OneLinePerCall ==
    /\ stdout = <<>>
    /\ Len(stderr) = Len(logArgs)
    /\ \A i \in 1..Len(stderr) :
          logArgs[i] # None =>
             /\ stderr[i] = LOG_TAG \o Redact(logArgs[i][1]) \o <<"\n">>
             /\ LinesIn(stderr[i]) = 1

(***************************************************************************)
(* C24.  When two add_exhelp_answer runs for the same Ex-Help request and  *)
(* two different model ids are in flight at once and both complete, the    *)
(* answers list the backend ends with holds the entries of both models,    *)
(* whatever the order of their GET and PATCH requests.  (Refuted: a run    *)
(* writes back the list it read, so a run that read before the other       *)
(* wrote drops the other's entry.)                                         *)
(***************************************************************************)
\* the answers value of the pack a run received
Fetched(h) == OptProp(OptProp(handlers[h].current, EXHELP_KEY), ANSWERS_KEY)

FetchedList(h) == IF IsArray(Fetched(h)) THEN Fetched(h).arr ELSE <<>>

\* the stored answers list holds the entry run h sent
Stored(h) ==
    /\ IsArray(backend)
    /\ \E i \in 1..Len(backend.arr) : backend.arr[i] = handlers[h].entry[1]

C24_BothAnswersKept ==
    \A h1, h2 \in HandlerIds :
        (/\ handlers[h1].pc = "done" /\ handlers[h2].pc = "done"
         /\ handlers[h1].model_id # handlers[h2].model_id
         /\ handlers[h1].current = Pack(Fetched(h1))
         /\ handlers[h2].current = Pack(Fetched(h2))
         /\ \A h \in HandlerIds : handlers[h].pc \in {"idle", "done", "failed"}) =>
            Stored(h1) /\ Stored(h2)

(***************************************************************************)
(* C25.  The PATCH of an add_exhelp_answer(exhelp_id, model_id, text) run  *)
(* carries the answers list its GET fetched with the first entry for       *)
(* model_id replaced by the new entry, or with the new entry appended when *)
(* the list has no entry for model_id; every other entry is kept, in its   *)
(* place; a fetched answers value that is not an array counts as the empty *)
(* list.  Run alone, that list is what the backend stores.                 *)
(***************************************************************************)
Alone(h) == \A g \in HandlerIds \ {h} : handlers[g].pc = "idle"

C25_PatchIsUpsert ==
    \A h \in HandlerIds :
        handlers[h].answers # None =>
            LET list == FetchedList(h)
                sent == handlers[h].answers[1]
                e == handlers[h].entry[1]
                m == handlers[h].model_id
                own == { i \in 1..Len(list) : list[i].model_id = m }
            IN /\ e.model_id = m /\ e.text = handlers[h].text
               /\ own = {} => sent = Append(list, e)
               /\ own # {} =>
                     /\ Len(sent) = Len(list)
                     /\ \A i \in 1..Len(list) :
                           sent[i] = IF i \in own /\ (\A j \in own : i <= j) THEN e ELSE list[i]
               /\ (Alone(h) /\ handlers[h].pc \in {"patched", "done"}) =>
                     backend = JArr(sent)

\* a run alone fetched a list with two answers of its model after another
\* model's: it sent the list with the first of the two replaced
C25_Witness ==
    /\ handlers[1].pc = "done" /\ Alone(1)
    /\ handlers[1].model_id = "claude"
    /\ Len(FetchedList(1)) = 3
    /\ FetchedList(1)[2].model_id = "claude" /\ FetchedList(1)[3].model_id = "claude"
    /\ handlers[1].answers[1] =
          <<FetchedList(1)[1], handlers[1].entry[1], FetchedList(1)[3]>>
    /\ backend = JArr(handlers[1].answers[1])

\* a run alone fetched no list and sent the new entry alone
C25_WitnessNoList ==
    /\ handlers[1].pc = "done" /\ Alone(1)
    /\ ~IsArray(Fetched(1))
    /\ handlers[1].answers[1] = <<handlers[1].entry[1]>>

====
